---- MODULE Spec2Model ----
(***************************************************************************)
(* Payment verification and recording flow of the EasyPass backend.        *)
(*                                                                         *)
(* The model follows src/src/services/paymentService.js and                *)
(* src/src/controllers/paymentController.js, together with the Mongoose    *)
(* schemas of src/src/models/Payment.js and src/src/models/User.js.  Every *)
(* store access of the code goes through a Mongoose model, so the schema   *)
(* semantics are part of the program: a path that the schema does not      *)
(* declare is dropped from documents and updates (schema option `strict`,  *)
(* on by default), an enum is validated on save, and a unique index        *)
(* rejects a second document with the same key.                            *)
(*                                                                         *)
(* Each `await` of a verification is one action, so concurrent requests    *)
(* interleave exactly at the suspension points of the code.                *)
(***************************************************************************)
EXTENDS Integers, Sequences, FiniteSets, TLC

\* ---------------------------------------------------------------- bounds
MaxCalls == 2
MaxTime == 1
MaxSimulated == 1
MaxRegs == 2

Calls == 1..MaxCalls
Users == {"u1", "u2"}

\* ------------------------------------------------------------ references
\* A reference is modelled by its prefix and the rest of the string, so that
\* String.prototype.startsWith can be computed.  NoRef is the missing/empty
\* reference of a request body.  No reference of the domain contains the
\* words 'jwt' or 'token'.
NoRef == [prefix |-> "", body |-> 0]
TestRefs == {[prefix |-> "test_", body |-> 1]}
LiveRefs == {[prefix |-> "ref_", body |-> 1], [prefix |-> "ref_", body |-> 2]}
PayRef(t) == [prefix |-> "pay_", body |-> t]
RequestRefs == {NoRef} \cup TestRefs \cup LiveRefs \cup {PayRef(0)}

startsWith(ref, p) == ref.prefix = p

\* --------------------------------------------------------------- amounts
\* A decimal amount in major units: whole + frac/100.
Dec(w, f) == [whole |-> w, frac |-> f]
NoAmount == Dec(-1, 0)
NoDate == -1

DivBy100Floor(minor) == Dec(minor \div 100, 0)
\* data.amount / 100 and testAmount / 100
DivBy100(minor) == Dec(minor \div 100, minor % 100)

testAmount == 1000

\* ------------------------------------------------------ Mongoose schemas
\* Paths declared by userSchema.  There is no `payment` path and no
\* `paymentStatus` / `lastPaymentDate` path.
UserSchemaPaths ==
    {"_id", "username", "email", "password", "qrCodeToken", "qrCodeDataUrl",
     "createdAt", "updatedAt"}

\* Paths declared by paymentSchema (plus _id and the timestamps).  The
\* provider reference is stored under `paymentId`; there is no `reference`
\* path.
PaymentSchemaPaths ==
    {"_id", "user", "qrCodeToken", "paymentId", "amount", "currency", "status",
     "paymentMethod", "description", "metadata", "paymentType", "paidAt",
     "processedAt", "refundedAt", "failedAt", "createdAt", "updatedAt"}

\* enum of paymentSchema.status
PaymentStatusEnum == {"pending", "completed", "failed", "refunded"}

\* Documents, filters and updates are functions from path names to values.
Restrict(f, S) == [p \in (DOMAIN f) \cap S |-> f[p]]

\* Schema option `strict` (default true): paths that are not in the schema are
\* dropped from an update before it is sent to the database.
castUpdateNotStrict(schemaPaths, update) == update
castUpdate(schemaPaths, update) == Restrict(update, schemaPaths)

\* Option `strictQuery`: when on, paths that are not in the schema are dropped
\* from a query filter; when off, the filter is sent as written.
castFilter(strictQ, schemaPaths, filter) ==
    IF strictQ THEN Restrict(filter, schemaPaths) ELSE filter

\* MongoDB equality match of a document against a filter.
matches(doc, filter) ==
    \A p \in DOMAIN filter : p \in DOMAIN doc /\ doc[p] = filter[p]

\* $set of an update on a stored document.
applyUpdate(doc, update) == update @@ doc

Get(doc, p, default) == IF p \in DOMAIN doc THEN doc[p] ELSE default

\* Query.select('-a -b'): the document without the excluded paths.
selectNothing(doc, excluded) == doc
select(doc, excluded) == Restrict(doc, (DOMAIN doc) \ excluded)

\* String.prototype.toLowerCase on the names of the domain ("Bob" is the only
\* one with an upper-case letter).
toLowerCase(str) == IF str = "Bob" THEN "bob" ELSE str

\* bcrypt.hash of userSchema.pre('save').
Hash(password) == <<"bcrypt", password>>

NoPayment ==
    [_id |-> 0, user |-> "", qrCodeToken |-> "", paymentId |-> NoRef,
     amount |-> NoAmount, currency |-> "", status |-> "", paymentMethod |-> "",
     paidAt |-> NoDate]

RECURSIVE FirstMatch(_, _, _)
FirstMatch(docs, filter, i) ==
    IF i > Len(docs) THEN NoPayment
    ELSE IF matches(docs[i], filter) THEN docs[i]
    ELSE FirstMatch(docs, filter, i + 1)

\* Model.findOne(filter): the first stored document that matches the cast
\* filter, in natural (insertion) order.
findOne(strictQ, docs, filter) ==
    FirstMatch(docs, castFilter(strictQ, PaymentSchemaPaths, filter), 1)

\* The unique index on paymentId: an insert is accepted only if no stored
\* document has the same key.
UniqueIndexAlwaysAccepts(docs, doc) == TRUE
UniqueIndexAccepts(docs, doc) ==
    \A i \in 1..Len(docs) : docs[i].paymentId # doc.paymentId

\* Document validation run by save(): enum of status.
Validates(doc) == doc.status \in PaymentStatusEnum

QrOf(u) == <<"qr", u>>

\* The document that `new User({...}).save()` stores: the email lower-cased
\* by the schema, the password hashed and qrCodeToken set by the pre-save
\* hook.  isAdmin, which registerUser passes, is no schema path.
newUser(id, username, email, password, t) ==
    castUpdate(UserSchemaPaths,
        ("_id" :> id) @@ ("username" :> username)
        @@ ("email" :> toLowerCase(email))
        @@ ("password" :> Hash(password))
        @@ ("qrCodeToken" :> QrOf(id)) @@ ("qrCodeDataUrl" :> "")
        @@ ("isAdmin" :> FALSE) @@ ("createdAt" :> t) @@ ("updatedAt" :> t))

\* ------------------------------------------------- the payment provider
\* What the provider's verify-by-reference endpoint may answer.  kind "none"
\* is a network failure or the 30 s timeout; authWord says that the
\* provider's message text contains 'jwt' or 'token'.  paid_at is null
\* (NoDate) for a transaction that did not succeed.
NoAnswer ==
    [kind |-> "unasked", status |-> 0, tx |-> "", amount |-> 0,
     currency |-> "", paid_at |-> NoDate, authWord |-> FALSE]
Http200(tx, minor) ==
    [kind |-> "http", status |-> 200, tx |-> tx, amount |-> minor,
     currency |-> "NGN", paid_at |-> IF tx = "success" THEN 0 ELSE NoDate,
     authWord |-> FALSE]
HttpNot200(status, word) ==
    [kind |-> "http", status |-> status, tx |-> "", amount |-> 0,
     currency |-> "", paid_at |-> NoDate, authWord |-> word]
NoResponse ==
    [kind |-> "none", status |-> 0, tx |-> "", amount |-> 0,
     currency |-> "", paid_at |-> NoDate, authWord |-> FALSE]
ProviderAnswers ==
    {Http200("success", 1050), Http200("failed", 5000),
     Http200("abandoned", 5000),
     HttpNot200(400, FALSE), HttpNot200(400, TRUE), HttpNot200(302, FALSE),
     HttpNot200(500, FALSE), NoResponse}

\* Amounts a client may put in the request body (0: no amount field).  The
\* controller destructures only `reference` from the body.
BodyAmounts == {0, 7}

\* ---------------------------------------------------------------- errors
\* A thrown error: its name, whether its message contains 'jwt' or 'token',
\* whether it carries .response / .request (axios), and its statusCode
\* (0: not set).
Err(name, word, response, request, statusCode) ==
    [name |-> name, authWord |-> word, response |-> response,
     request |-> request, statusCode |-> statusCode]

\* The catch block of verifyPaymentWithPaystack: what it rethrows.
serviceCatch(error) ==
    IF error.response
    THEN Err("Error", error.authWord, FALSE, FALSE, error.statusCode)
    ELSE IF error.request
    THEN Err("Error", FALSE, FALSE, FALSE, 503)
    ELSE [error EXCEPT !.statusCode = IF @ = 0 THEN 500 ELSE @]

\* const isAuthError = error.name === 'JsonWebTokenError' || ... 
isAuthError(error) ==
    \/ error.name = "JsonWebTokenError"
    \/ error.name = "TokenExpiredError"
    \/ error.authWord

\* const statusCode = error.response?.status || isAuthError ? 401 : 500;
\* (`||` binds tighter than `?:`)
errorStatusCodeAlways401(error) == 401
errorStatusCode(error) ==
    IF error.response \/ isAuthError(error) THEN 401 ELSE 500

\* --------------------------------------------------------------- replies
NoUserDoc == ("_id" :> "")
NoPaymentReply ==
    [id |-> 0, paymentId |-> NoRef, amount |-> NoAmount, currency |-> "",
     status |-> "", paidAt |-> NoDate]
\* count is history: the number of stored Payments when the reply was sent.
NoResp ==
    [status |-> 0, success |-> FALSE, requiresAuth |-> FALSE,
     payment |-> NoPaymentReply, user |-> NoUserDoc, count |-> 0]

\* The `payment` object of a successful reply.  The test branch reads
\* savedPayment.reference, which no stored document has.
paymentReply(p, test) ==
    [id |-> p._id, paymentId |-> IF test THEN NoRef ELSE p.paymentId,
     amount |-> p.amount, currency |-> p.currency, status |-> p.status,
     paidAt |-> p.paidAt]

\* The catch block of the controller's verifyPayment.
errorReply(error) ==
    [NoResp EXCEPT !.status = errorStatusCode(error),
                   !.requiresAuth = isAuthError(error)]

\* ----------------------------------------------------------------- state
VARIABLES
    strictQuery,    \* Mongoose option strictQuery (its default differs
                    \* between Mongoose releases; the repository sets none)
    paystackKey,    \* process.env.PAYSTACK_SECRET_KEY is set
    now,            \* the server clock
    users,          \* the User collection: user id -> stored document
    payments,       \* the Payment collection, in insertion order
    ingested,       \* history: for each stored Payment, how it was created
    calls,          \* the POST /payments/verify requests and where each stands
    lastDone,       \* history: the request that completed last, if nothing
                    \* else has written since and a request is yet to come
    readOut,        \* the reply of the last read request
    nodeEnv,        \* process.env.NODE_ENV ("" when unset)
    regs,           \* the POST /users/register requests and where each stands
    webOut          \* the last request to a user route or to the error
                    \* handler: what it carried and how it was answered

vars ==
    <<strictQuery, paystackKey, now, users, payments, ingested, calls,
      lastDone, readOut, nodeEnv, regs, webOut>>

webVars == <<nodeEnv, regs, webOut>>

NoData ==
    [user |-> "", reference |-> NoRef, amount |-> NoAmount, currency |-> "",
     status |-> "", paymentMethod |-> "", paidAt |-> NoDate]

NoRead ==
    [kind |-> "none", user |-> "", target |-> "", id |-> 0, page |-> 0, limit |-> 0,
     sortBy |-> "", status |-> 0, success |-> FALSE, hasPaidToday |-> FALSE,
     payment |-> NoPayment, data |-> <<>>, total |-> 0, totalPages |-> 0,
     hasNextPage |-> FALSE, hasPreviousPage |-> FALSE]

IdleCall ==
    [pc |-> "idle", user |-> "", ref |-> NoRef,
     requests |-> 0, answer |-> NoAnswer, data |-> NoData,
     saved |-> NoPayment, resp |-> NoResp,
     after |-> 0, unseen |-> FALSE, noPrior |-> FALSE,
     inserted |-> FALSE, failedAt |-> ""]

\* A JSON web token as protect receives it: what jwt.verify makes of it and
\* the user id of its claims (id / userId / sub).  "blank" is a token of
\* white space only.
NoToken == [kind |-> "none", sub |-> ""]
Token(kind, sub) == [kind |-> kind, sub |-> sub]

\* What a request carries for protect: the `token` cookie, the bearer token
\* of the Authorization header, the x-use-cookie-auth header and
\* req.session.userId ("" when there is no session).
NoReq ==
    [cookie |-> NoToken, header |-> NoToken, useCookie |-> FALSE,
     session |-> ""]

\* denied: the status protect answered with (0: it sent nothing); next:
\* protect called next(); reqUser: req.user; sent: the number of responses
\* the request got; status, body, list: the response.
NoWeb ==
    [route |-> "none", req |-> NoReq, arg |-> "", denied |-> 0,
     next |-> FALSE, reqUser |-> NoUserDoc, sent |-> 0, status |-> 0,
     body |-> NoUserDoc, list |-> <<>>]

Regs == 1..MaxRegs

\* Values of NODE_ENV ("": unset).
NodeEnvs == {"development", "production", "test", ""}

IdleReg ==
    [pc |-> "idle", username |-> "", email |-> "", id |-> "", status |-> 0,
     body |-> NoUserDoc]

\* png data URL of QRCode.toDataURL for a user.
QrImage(id) == <<"png", id>>

\* The users registered before the first request of a run.
RegisteredAs(u) ==
    IF u = "u1" THEN [username |-> "alice", email |-> "alice@x.io"]
    ELSE [username |-> "carol", email |-> "carol@x.io"]

InFlight(cl) == cl.pc \notin {"idle", "done"}

\* History bookkeeping: a step of `actor` happened while other requests were
\* in flight, so those are no longer "directly after" an earlier request.
Disturb(cs, actor) ==
    [q \in Calls |->
        IF q # actor /\ InFlight(cs[q]) THEN [cs[q] EXCEPT !.after = 0]
        ELSE cs[q]]

Stored(ref) == \E i \in 1..Len(payments) : payments[i].paymentId = ref
Owns(u) == \E i \in 1..Len(payments) : payments[i].user = u

\* History bookkeeping: request c completes.
Completed(c) == IF \E q \in Calls \ {c} : calls[q].pc = "idle" THEN c ELSE 0

\* A finished request keeps its inputs, the provider's answer and its reply.
Finish(cl, reply) ==
    [cl EXCEPT !.pc = "done", !.data = NoData, !.saved = NoPayment,
               !.resp = [reply EXCEPT !.count = Len(payments)]]

\* The store and the requests before the first request of a run.
InitStore ==
    /\ now = 0
    /\ users = [u \in Users |->
                  [newUser(u, RegisteredAs(u).username, RegisteredAs(u).email,
                           "Passw0rd!", 0)
                     EXCEPT !["qrCodeDataUrl"] = QrImage(u)]]
    /\ payments = <<>>
    /\ ingested = <<>>
    /\ calls = [c \in Calls |-> IdleCall]
    /\ lastDone = 0
    /\ readOut = NoRead
    /\ regs = [r \in Regs |-> IdleReg]
    /\ webOut = NoWeb

Init ==
    /\ strictQuery \in BOOLEAN
    /\ paystackKey \in BOOLEAN
    /\ nodeEnv = "development"
    /\ InitStore

\* The clock advances.
Tick ==
    /\ now < MaxTime
    /\ now' = now + 1
    /\ UNCHANGED <<webVars, strictQuery, paystackKey, users, payments, ingested, calls,
                   lastDone, readOut>>

\* ------------------------------------------- POST /payments/verify, steps
\* paymentData of the test branch (testAmount / 100, status 'success').
testPaymentData(u, ref, t) ==
    [user |-> u, reference |-> ref, amount |-> DivBy100(testAmount),
     currency |-> "NGN", status |-> "success", paymentMethod |-> "test_card",
     paidAt |-> t]

\* paymentToSave of the live branch: every field comes from the provider's
\* answer `a`; the reference is the one the provider echoes.
paymentToSave(u, ref, a, t) ==
    [user |-> u, reference |-> ref, amount |-> DivBy100(a.amount),
     currency |-> a.currency,
     status |-> IF a.tx = "success" THEN "completed"
                ELSE IF a.tx = "failed" THEN "failed" ELSE "pending",
     paymentMethod |-> "card",
     paidAt |-> IF a.paid_at # NoDate THEN a.paid_at ELSE t]

\* new Payment({...}) of saveVerifiedPayment.
newPayment(d, id, t) ==
    [_id |-> id, user |-> d.user, qrCodeToken |-> QrOf(d.user),
     paymentId |-> d.reference, amount |-> d.amount,
     currency |-> IF d.currency = "" THEN "NGN" ELSE d.currency,
     status |-> IF d.status = "" THEN "completed" ELSE d.status,
     paymentMethod |-> IF d.paymentMethod = "" THEN "card" ELSE d.paymentMethod,
     paidAt |-> IF d.paidAt = NoDate THEN t ELSE d.paidAt]

\* The update document that saveVerifiedPayment sends for the user.
saveUserUpdate(p, t) ==
    ("payment.status" :> "active")
    @@ ("payment.lastPaymentDate" :> p.paidAt)
    @@ ("payment.lastPaymentAmount" :> p.amount)
    @@ ("payment.currency" :> p.currency)
    @@ ("payment.paymentType" :> "one-time")
    @@ ("updatedAt" :> t)

\* The update document that verifyPaymentWithPaystack sends for the user.
verifyUserUpdate(p, t) ==
    ("payment.paymentType" :> "one-time")
    @@ ("payment.lastPaymentDate" :> p.paidAt)
    @@ ("payment.lastPaymentAmount" :> p.amount)
    @@ ("payment.status" :> "active")
    @@ ("payment.nextBillingDate" :> NoDate)
    @@ ("updatedAt" :> t)

\* User.findByIdAndUpdate(id, update): the cast update applied to the stored
\* document.
findByIdAndUpdate(us, u, update) ==
    [us EXCEPT ![u] = applyUpdate(@, castUpdate(UserSchemaPaths, update))]

isTestPayment(ref) == startsWith(ref, "test_") \/ startsWith(ref, "pay_")

\* The request arrives: the controller's checks, then the service up to its
\* first store or provider access.
VerifyStartNoReferenceCheck(c, u, r, b) ==
    /\ calls[c].pc = "idle"
    /\ IF c = 1 THEN TRUE ELSE calls[c - 1].pc # "idle"
    /\ LET quiet == \A q \in Calls : ~InFlight(calls[q])
           cl == [IdleCall EXCEPT
                    !.user = u, !.ref = r,
                    !.unseen = ~Stored(r), !.noPrior = ~Owns(u),
                    !.after = IF quiet THEN lastDone ELSE 0]
           next ==
             IF ~paystackKey
             THEN Finish(cl, errorReply(serviceCatch(
                                Err("Error", FALSE, FALSE, FALSE, 0))))
             ELSE
             IF isTestPayment(r)
             THEN [cl EXCEPT !.pc = "find", !.data = testPaymentData(u, r, now)]
             ELSE [cl EXCEPT !.pc = "provider", !.requests = 1]
       IN /\ calls' = [Disturb(calls, c) EXCEPT ![c] = next]
          /\ lastDone' = IF next.pc = "done" THEN Completed(c) ELSE lastDone
    /\ UNCHANGED <<webVars, strictQuery, paystackKey, now, users, payments, ingested,
                   readOut>>
VerifyStartNoKeyCheck(c, u, r, b) ==
    /\ calls[c].pc = "idle"
    /\ IF c = 1 THEN TRUE ELSE calls[c - 1].pc # "idle"
    /\ LET quiet == \A q \in Calls : ~InFlight(calls[q])
           cl == [IdleCall EXCEPT
                    !.user = u, !.ref = r,
                    !.unseen = ~Stored(r), !.noPrior = ~Owns(u),
                    !.after = IF quiet THEN lastDone ELSE 0]
           next ==
             IF r = NoRef
             THEN Finish(cl, [NoResp EXCEPT !.status = 400])
             ELSE
             IF isTestPayment(r)
             THEN [cl EXCEPT !.pc = "find", !.data = testPaymentData(u, r, now)]
             ELSE [cl EXCEPT !.pc = "provider", !.requests = 1]
       IN /\ calls' = [Disturb(calls, c) EXCEPT ![c] = next]
          /\ lastDone' = IF next.pc = "done" THEN Completed(c) ELSE lastDone
    /\ UNCHANGED <<webVars, strictQuery, paystackKey, now, users, payments, ingested,
                   readOut>>
VerifyStart(c, u, r, b) ==
    /\ calls[c].pc = "idle"
    /\ IF c = 1 THEN TRUE ELSE calls[c - 1].pc # "idle"
    /\ LET quiet == \A q \in Calls : ~InFlight(calls[q])
           cl == [IdleCall EXCEPT
                    !.user = u, !.ref = r,
                    !.unseen = ~Stored(r), !.noPrior = ~Owns(u),
                    !.after = IF quiet THEN lastDone ELSE 0]
           next ==
             IF r = NoRef
             THEN Finish(cl, [NoResp EXCEPT !.status = 400])
             ELSE IF ~paystackKey
             THEN Finish(cl, errorReply(serviceCatch(
                                Err("Error", FALSE, FALSE, FALSE, 0))))
             ELSE IF isTestPayment(r)
             THEN [cl EXCEPT !.pc = "find", !.data = testPaymentData(u, r, now)]
             ELSE [cl EXCEPT !.pc = "provider", !.requests = 1]
       IN /\ calls' = [Disturb(calls, c) EXCEPT ![c] = next]
          /\ lastDone' = IF next.pc = "done" THEN Completed(c) ELSE lastDone
    /\ UNCHANGED <<webVars, strictQuery, paystackKey, now, users, payments, ingested,
                   readOut>>

\* The provider's answer (or the lack of one) reaches axios.get.
ProviderRespondAnyStatus(c, a) ==
    /\ calls[c].pc = "provider"
    /\ LET cl == [calls[c] EXCEPT !.answer = a]
           thrown ==
             IF a.kind = "none"
             THEN Err("AxiosError", FALSE, FALSE, TRUE, 0)
             ELSE Err("AxiosError", a.authWord, TRUE, TRUE, a.status)
           next ==
             IF a.kind = "http" /\ a.status < 500
             THEN [cl EXCEPT !.pc = "find",
                     !.data = paymentToSave(cl.user, cl.ref, a, now)]
             ELSE Finish(cl, errorReply(serviceCatch(thrown)))
       IN /\ calls' = [Disturb(calls, c) EXCEPT ![c] = next]
          /\ lastDone' = IF next.pc = "done" THEN Completed(c) ELSE lastDone
    /\ UNCHANGED <<webVars, strictQuery, paystackKey, now, users, payments, ingested,
                   readOut>>
ProviderRespond(c, a) ==
    /\ calls[c].pc = "provider"
    /\ LET cl == [calls[c] EXCEPT !.answer = a]
           thrown ==
             IF a.kind = "none"
             THEN Err("AxiosError", FALSE, FALSE, TRUE, 0)
             ELSE IF a.status >= 500
             THEN Err("AxiosError", a.authWord, TRUE, TRUE, a.status)
             ELSE Err("Error", a.authWord, FALSE, FALSE, 0)
           next ==
             IF a.kind = "http" /\ a.status = 200
             THEN [cl EXCEPT !.pc = "find",
                     !.data = paymentToSave(cl.user, cl.ref, a, now)]
             ELSE Finish(cl, errorReply(serviceCatch(thrown)))
       IN /\ calls' = [Disturb(calls, c) EXCEPT ![c] = next]
          /\ lastDone' = IF next.pc = "done" THEN Completed(c) ELSE lastDone
    /\ UNCHANGED <<webVars, strictQuery, paystackKey, now, users, payments, ingested,
                   readOut>>

\* saveVerifiedPayment: Payment.findOne({ reference }).
SaveFind(c) ==
    /\ calls[c].pc = "find"
    /\ LET cl == calls[c]
           existingPayment ==
             findOne(strictQuery, payments, "reference" :> cl.data.reference)
           next ==
             IF existingPayment # NoPayment
             THEN [cl EXCEPT !.pc = "update2", !.saved = existingPayment]
             ELSE [cl EXCEPT !.pc = "save"]
       IN calls' = [Disturb(calls, c) EXCEPT ![c] = next]
    /\ UNCHANGED <<webVars, strictQuery, paystackKey, now, users, payments, ingested,
                   lastDone, readOut>>

\* saveVerifiedPayment: new Payment(...).save().
SaveInsert(c) ==
    /\ calls[c].pc = "save"
    /\ LET cl == calls[c]
           doc == newPayment(cl.data, Len(payments) + 1, now)
           ok == Validates(doc) /\ UniqueIndexAccepts(payments, doc)
           \* the test branch rethrows as new Error(`Failed to save test
           \* payment: ...`)
           thrown ==
             IF isTestPayment(cl.ref)
             THEN Err("Error", FALSE, FALSE, FALSE, 0)
             ELSE IF ~Validates(doc)
             THEN Err("ValidationError", FALSE, FALSE, FALSE, 0)
             ELSE Err("MongoServerError", FALSE, FALSE, FALSE, 0)
           next ==
             IF ok THEN [cl EXCEPT !.pc = "update1", !.saved = doc,
                                   !.inserted = TRUE]
             ELSE Finish(cl, errorReply(serviceCatch(thrown)))
       IN /\ calls' = [Disturb(calls, c) EXCEPT ![c] = next]
          /\ payments' = IF ok THEN Append(payments, doc) ELSE payments
          /\ ingested' =
               IF ok
               THEN Append(ingested,
                      [via |-> IF isTestPayment(cl.ref) THEN "test" ELSE "live",
                       minor |-> cl.answer.amount])
               ELSE ingested
          /\ lastDone' = IF ok THEN lastDone ELSE Completed(c)
    /\ UNCHANGED <<webVars, strictQuery, paystackKey, now, users, readOut>>

\* saveVerifiedPayment: User.findByIdAndUpdate after the insert.
SaveUpdateUser(c) ==
    /\ calls[c].pc = "update1"
    /\ users' = findByIdAndUpdate(users, calls[c].user,
                                  saveUserUpdate(calls[c].saved, now))
    /\ calls' = [Disturb(calls, c) EXCEPT ![c].pc = "update2"]
    /\ UNCHANGED <<webVars, strictQuery, paystackKey, now, payments, ingested, lastDone,
                   readOut>>

\* The store fails User.findByIdAndUpdate (connection lost, server error).
\* Neither saveVerifiedPayment nor the live branch catches it; the test
\* branch rethrows it as new Error(`Failed to save test payment: ...`).  The
\* service's catch block rethrows and the controller answers.
UpdateUserFails(c) ==
    /\ calls[c].pc \in {"update1", "update2"}
    /\ LET cl == [calls[c] EXCEPT !.failedAt = calls[c].pc]
           thrown ==
             IF isTestPayment(cl.ref)
             THEN Err("Error", FALSE, FALSE, FALSE, 0)
             ELSE Err("MongoNetworkError", FALSE, FALSE, FALSE, 0)
       IN calls' = [Disturb(calls, c) EXCEPT
                      ![c] = Finish(cl, errorReply(serviceCatch(thrown)))]
    /\ lastDone' = Completed(c)
    /\ UNCHANGED <<webVars, strictQuery, paystackKey, now, users, payments, ingested,
                   readOut>>

\* verifyPaymentWithPaystack: User.findByIdAndUpdate with the payment that
\* saveVerifiedPayment returned.
VerifyUpdateUser(c) ==
    /\ calls[c].pc = "update2"
    /\ users' = findByIdAndUpdate(users, calls[c].user,
                                  verifyUserUpdate(calls[c].saved, now))
    /\ calls' = [Disturb(calls, c) EXCEPT ![c].pc = "respond"]
    /\ UNCHANGED <<webVars, strictQuery, paystackKey, now, payments, ingested, lastDone,
                   readOut>>

\* The controller reads the user back, without the password and the
\* password-reset fields, and answers 200.
VerifyRespond(c) ==
    /\ calls[c].pc = "respond"
    /\ LET cl == calls[c]
           reply == [NoResp EXCEPT !.status = 200, !.success = TRUE,
                                   !.payment = paymentReply(cl.saved,
                                                isTestPayment(cl.ref)),
                                   !.user = select(users[cl.user],
                                               {"password", "__v",
                                                "resetPasswordToken",
                                                "resetPasswordExpire"})]
       IN calls' = [Disturb(calls, c) EXCEPT ![c] = Finish(cl, reply)]
    /\ lastDone' = Completed(c)
    /\ UNCHANGED <<webVars, strictQuery, paystackKey, now, users, payments, ingested,
                   readOut>>

\* ------------------------------------------------ POST /payments/simulate
SimAmounts == {25}

\* The route is mounted unless NODE_ENV is 'production'.
\* simulatePayment -> processPayment(userId, paymentData): a pending Payment
\* with paymentId `pay_${Date.now()}`; then user.lastPaymentDate and
\* user.paymentStatus are assigned and the user saved.
processPayment(u, amt) ==
    /\ nodeEnv # "production"
    /\ Len(SelectSeq(ingested, LAMBDA g : g.via = "simulate")) < MaxSimulated
    /\ LET doc == [_id |-> Len(payments) + 1, user |-> u,
                   qrCodeToken |-> QrOf(u), paymentId |-> PayRef(now),
                   amount |-> Dec(amt, 0), currency |-> "USD",
                   status |-> "pending", paymentMethod |-> "test",
                   paidAt |-> now]
           ok == Validates(doc) /\ UniqueIndexAccepts(payments, doc)
           userUpdate == ("lastPaymentDate" :> now) @@ ("paymentStatus" :> "pending")
       IN /\ payments' = IF ok THEN Append(payments, doc) ELSE payments
          /\ ingested' =
               IF ok THEN Append(ingested,
                            [via |-> "simulate", minor |-> 0])
               ELSE ingested
          /\ users' = IF ok THEN findByIdAndUpdate(users, u, userUpdate)
                      ELSE users
    /\ calls' = Disturb(calls, 0)
    /\ lastDone' = 0
    /\ UNCHANGED <<webVars, strictQuery, paystackKey, now, readOut>>

\* ------------------------------------------------- POST /payments/webhook
\* handlePaymentWebhook for event 'charge.success' and reference `ref`:
\* Payment.findOneAndUpdate({ paymentId: reference }, ...), then the owner's
\* user document is updated.
handlePaymentWebhook(ref) ==
    /\ \E i \in 1..Len(payments) :
         /\ matches(payments[i],
                    castFilter(strictQuery, PaymentSchemaPaths, "paymentId" :> ref))
         /\ \A j \in 1..(i - 1) : payments[j].paymentId # ref
         /\ LET payment == [payments[i] EXCEPT !.status = "completed",
                                                !.paidAt = now]
                userUpdate ==
                  ("payment.status" :> "active")
                  @@ ("payment.lastPaymentDate" :> now)
                  @@ ("payment.lastPaymentAmount" :> payment.amount)
                  @@ ("payment.currency" :> payment.currency)
                  @@ ("updatedAt" :> now)
            IN /\ payments' = [payments EXCEPT ![i] = payment]
               /\ users' = findByIdAndUpdate(users, payment.user, userUpdate)
    /\ calls' = Disturb(calls, 0)
    /\ lastDone' = 0
    /\ UNCHANGED <<webVars, strictQuery, paystackKey, now, ingested, readOut>>

\* ------------------------------------------------- POST /users/register
\* Bodies that passed validateRegisterUser (the email normalised to lower
\* case, the password strong enough).
RegUsernames == {"Bob", "bob"}
RegEmails == {"alice@x.io", "bob@x.io", "rob@x.io"}
RegPassword == "Passw0rd!"

\* _id of the next document of the User collection.
UserIdPool == <<"u1", "u2", "u3", "u4", "u5", "u6", "u7">>
NewUserId(us) == UserIdPool[Cardinality(DOMAIN us) + 1]

\* The unique indexes of userSchema (username, email, qrCodeToken).
UserUniqueIndexAlwaysAccepts(us, doc) == TRUE
UserUniqueIndexAccepts(us, doc) ==
    \A id \in DOMAIN us :
        /\ us[id]["username"] # doc["username"]
        /\ us[id]["email"] # doc["email"]
        /\ us[id]["qrCodeToken"] # doc["qrCodeToken"]

RegReply(reg, status, body) ==
    [reg EXCEPT !.pc = "done", !.status = status, !.body = body]

\* registerUser: User.findOne({ $or: [{ email }, { username }] }) with both
\* values lower-cased; a match is answered 400.
registerFind(r, username, email) ==
    /\ \A c \in Calls : calls[c].pc = "idle"
    /\ regs[r].pc = "idle"
    /\ IF r = 1 THEN TRUE ELSE regs[r - 1].pc # "idle"
    /\ LET reg == [IdleReg EXCEPT !.username = username, !.email = email]
           existingUser ==
             \E id \in DOMAIN users :
                 \/ users[id]["email"] = toLowerCase(email)
                 \/ users[id]["username"] = toLowerCase(username)
       IN regs' = [regs EXCEPT ![r] =
                     IF existingUser
                     THEN RegReply(reg, 400,
                            "message" :> "User with this email or username already exists")
                     ELSE [reg EXCEPT !.pc = "save"]]
    /\ UNCHANGED <<strictQuery, paystackKey, now, users, payments, ingested,
                   calls, lastDone, readOut, nodeEnv, webOut>>

\* registerUser: new User({...}).save().  A duplicate key (code 11000) is
\* answered 400 by the controller.
registerSave(r) ==
    /\ regs[r].pc = "save"
    /\ LET reg == regs[r]
           id == NewUserId(users)
           doc == newUser(id, reg.username, reg.email, RegPassword, now)
           ok == UserUniqueIndexAccepts(users, doc)
       IN /\ users' = IF ok THEN (id :> doc) @@ users ELSE users
          /\ regs' = [regs EXCEPT ![r] =
                        IF ok THEN [reg EXCEPT !.pc = "qr", !.id = id]
                        ELSE RegReply(reg, 400,
                               "message" :> "field already exists")]
    /\ UNCHANGED <<strictQuery, paystackKey, now, payments, ingested, calls,
                   lastDone, readOut, nodeEnv, webOut>>

\* registerUser: the QR code is stored with a second save, and the reply 201
\* carries the fields of userResponse, the token for the new user included.
registerRespond(r) ==
    /\ regs[r].pc = "qr"
    /\ LET reg == regs[r]
           savedUser == applyUpdate(users[reg.id],
                          ("qrCodeDataUrl" :> QrImage(reg.id))
                          @@ ("updatedAt" :> now))
           userResponse ==
             ("_id" :> savedUser["_id"])
             @@ ("username" :> savedUser["username"])
             @@ ("email" :> savedUser["email"])
             @@ ("qrCodeDataUrl" :> savedUser["qrCodeDataUrl"])
             @@ ("qrCodeToken" :> savedUser["qrCodeToken"])
             @@ ("isAdmin" :> Get(savedUser, "isAdmin", FALSE))
             @@ ("token" :> Token("valid", reg.id))
       IN /\ users' = [users EXCEPT ![reg.id] = savedUser]
          /\ regs' = [regs EXCEPT ![r] = RegReply(reg, 201, userResponse)]
    /\ UNCHANGED <<strictQuery, paystackKey, now, payments, ingested, calls,
                   lastDone, readOut, nodeEnv, webOut>>

\* ------------------------------------------------------------- protect
\* Property access on a hydrated document: a path the schema does not
\* declare has no getter and reads as undefined (falsy).
DocFlag(schemaPaths, doc, path) ==
    IF path \in schemaPaths /\ path \in DOMAIN doc THEN doc[path] ELSE FALSE

\* Tokens for a registered user and for u3, an id that matches no user
\* until a registration of the run creates it, and tokens jwt.verify rejects.
Tokens ==
    {NoToken, Token("valid", "u1"), Token("valid", "u3"),
     Token("expired", "u1"), Token("malformed", ""), Token("blank", "")}
HeaderTokens == {NoToken, Token("valid", "u2"), Token("malformed", "")}
Sessions == {"", "u1", "u3"}

\* Requests with a cookie token only; with a header token beside no or a
\* rejected cookie token; and without a token, with or without
\* x-use-cookie-auth and a session.
Requests ==
    [cookie : Tokens, header : {NoToken}, useCookie : {FALSE}, session : {""}]
    \cup [cookie : {NoToken, Token("malformed", "")},
          header : HeaderTokens \ {NoToken}, useCookie : {FALSE},
          session : {""}]
    \cup [cookie : {NoToken}, header : {NoToken}, useCookie : BOOLEAN,
          session : Sessions]
    \cup [cookie : {Token("valid", "u1")}, header : {NoToken},
          useCookie : {TRUE}, session : {"u3"}]

Denied(status) == [denied |-> status, next |-> FALSE, reqUser |-> NoUserDoc]

\* User.findById(id).select('-password'), then the account checks, then
\* req.user = user and next().
protectResolveNoUserCheck(us, id) ==
    [denied |-> 0, next |-> TRUE,
     reqUser |-> IF id \in DOMAIN us THEN select(us[id], {"password"})
                 ELSE NoUserDoc]
protectResolve(us, id) ==
    IF id \notin DOMAIN us THEN Denied(401)
    ELSE LET user == select(us[id], {"password"})
         IN IF \/ DocFlag(UserSchemaPaths, user, "isSuspended")
               \/ DocFlag(UserSchemaPaths, user, "isDeleted")
            THEN Denied(403)
            ELSE [denied |-> 0, next |-> TRUE, reqUser |-> user]

\* protect: the token of the cookie, else of the Authorization header, is
\* verified with jwt.verify (TokenExpiredError, JsonWebTokenError and every
\* other error are answered 401); without a token, x-use-cookie-auth selects
\* the session.
protect(us, req) ==
    LET token == IF req.cookie # NoToken THEN req.cookie ELSE req.header
    IN IF token = NoToken /\ ~req.useCookie THEN Denied(401)
       ELSE IF token # NoToken
       THEN IF token.kind = "blank" THEN Denied(401)
            ELSE IF token.kind # "valid" THEN Denied(401)
            ELSE protectResolve(us, token.sub)
       ELSE IF req.session = "" THEN Denied(401)
       ELSE protectResolve(us, req.session)

\* The answer of protect itself, when it did not call next().
DeniedReply(route, req, auth) ==
    [NoWeb EXCEPT !.route = route, !.req = req, !.denied = auth.denied,
                  !.sent = 1, !.status = auth.denied]

\* ---------------------------------------------------------- user routes
\* GET /api/users (protect, getUsers): User.find({}).select('-password').
getUsers(req) ==
    /\ \A c \in Calls : calls[c].pc = "idle"
    /\ LET auth == protect(users, req)
           n == Cardinality(DOMAIN users)
       IN webOut' =
            IF ~auth.next THEN DeniedReply("getUsers", req, auth)
            ELSE [NoWeb EXCEPT
                    !.route = "getUsers", !.req = req, !.next = TRUE,
                    !.reqUser = auth.reqUser, !.sent = 1, !.status = 200,
                    !.list = [i \in 1..n |->
                                select(users[UserIdPool[i]], {"password"})]]
    /\ UNCHANGED <<strictQuery, paystackKey, now, users, payments, ingested,
                   calls, lastDone, readOut, nodeEnv, regs>>

\* Ids a client may ask for: u3, which matches no user until a registration
\* of the run creates it, and a string that is no ObjectId.
AskedIds == {"u3", "not-an-id"}
isObjectId(id) == id # "not-an-id"

\* GET /api/users/:id (protect, getUserById).
getUserById(req, id) ==
    /\ \A c \in Calls : calls[c].pc = "idle"
    /\ LET auth == protect(users, req)
           out == [NoWeb EXCEPT
                     !.route = "getUserById", !.req = req, !.arg = id,
                     !.next = TRUE, !.reqUser = auth.reqUser, !.sent = 1]
       IN webOut' =
            IF ~auth.next
            THEN [DeniedReply("getUserById", req, auth) EXCEPT !.arg = id]
            ELSE IF ~isObjectId(id) THEN [out EXCEPT !.status = 400]
            ELSE IF id \notin DOMAIN users THEN [out EXCEPT !.status = 404]
            ELSE [out EXCEPT !.status = 200,
                             !.body = select(users[id], {"password"})]
    /\ UNCHANGED <<strictQuery, paystackKey, now, users, payments, ingested,
                   calls, lastDone, readOut, nodeEnv, regs>>

\* GET /api/users/qr/:token (public) with the token of user `owner`:
\* User.findOne({ qrCodeToken }).select('-password').
getUserByQrToken(owner) ==
    /\ \A c \in Calls : calls[c].pc = "idle"
    /\ LET token == QrOf(owner)
           found == {id \in DOMAIN users : users[id]["qrCodeToken"] = token}
           out == [NoWeb EXCEPT !.route = "getUserByQrToken", !.arg = owner,
                                !.sent = 1]
       IN webOut' =
            IF found = {} THEN [out EXCEPT !.status = 404]
            ELSE [out EXCEPT
                    !.status = 200,
                    !.body = select(users[CHOOSE id \in found : TRUE],
                                    {"password"})]
    /\ UNCHANGED <<strictQuery, paystackKey, now, users, payments, ingested,
                   calls, lastDone, readOut, nodeEnv, regs>>

\* ------------------------------------------------------- error handling
\* An error as the global error handler receives it: its name, its
\* statusCode (0: none), isOperational, its code (0: none) and whether it
\* carries errmsg.
AppError(statusCode) ==
    [label |-> "AppError", name |-> "Error", statusCode |-> statusCode,
     isOperational |-> TRUE, code |-> 0, errmsg |-> FALSE]

\* Errors a route hands to next(): a plain Error thrown by a handler, and
\* the duplicate-key error of the store, whose errmsg depends on the
\* driver.
RouteErrors ==
    {[label |-> "Error", name |-> "Error", statusCode |-> 0,
      isOperational |-> FALSE, code |-> 0, errmsg |-> FALSE]}
    \cup {[label |-> "E11000", name |-> "MongoServerError", statusCode |-> 0,
           isOperational |-> FALSE, code |-> 11000, errmsg |-> m] :
            m \in BOOLEAN}

\* sendErrorProd after the conversions of the production branch: the status
\* of the one response.  handleDuplicateFieldsDB reads err.errmsg.match,
\* which throws without errmsg; Express then hands the TypeError to its
\* default handler, which answers 500.
sendErrorProd(err, statusCode) ==
    IF err.code = 11000 THEN (IF err.errmsg THEN 400 ELSE 500)
    ELSE IF err.isOperational THEN statusCode
    ELSE 500

\* globalErrorHandler(err, req, res, next): a response in development and
\* in production; for every other NODE_ENV the handler returns without
\* sending and without calling next.
globalErrorHandler(err) ==
    /\ \A c \in Calls : calls[c].pc = "idle"
    /\ LET statusCode == IF err.statusCode = 0 THEN 500 ELSE err.statusCode
           out == [NoWeb EXCEPT !.route = "error", !.arg = err.label]
       IN webOut' =
            IF nodeEnv = "development"
            THEN [out EXCEPT !.sent = 1, !.status = statusCode]
            ELSE IF nodeEnv = "production"
            THEN [out EXCEPT !.sent = 1,
                             !.status = sendErrorProd(err, statusCode)]
            ELSE out
    /\ UNCHANGED <<strictQuery, paystackKey, now, users, payments, ingested,
                   calls, lastDone, readOut, nodeEnv, regs>>

\* app.all('*', notFoundHandler): a request no route matches is handed to
\* the global error handler as AppError 404.
notFoundHandler == globalErrorHandler(AppError(404))

\* ------------------------------------------------------------------ reads
\* A start of day so far back that every stored payment is of today.
StartOfDayEpoch(t) == -1 - MaxTime

\* new Date() then setHours(0, 0, 0, 0): the server-local midnight at or
\* before t.  A day lasts two clock instants and the server's midnights fall
\* on the odd ones, so that instant 0 is the evening of one day and instant
\* 1 the first moment of the next.
StartOfDay(t) == t - ((t + 1) % 2)

RECURSIVE LatestBy(_, _)
\* sort({ paidAt: -1 }) then first: the document of `docs` (a sequence) with
\* the greatest paidAt, the first such on ties; NoPayment if there is none.
LatestBy(docs, i) ==
    IF i > Len(docs) THEN NoPayment
    ELSE LET rest == LatestBy(docs, i + 1)
         IN IF rest = NoPayment \/ docs[i].paidAt >= rest.paidAt
            THEN docs[i] ELSE rest

\* hasPaidTodayService(userId, qrCodeToken) as the controller calls it, for
\* the caller's own id, and the 200 reply the controller makes of its
\* result.  { $gte: todayStart } matches no document without a paidAt.
hasPaidTodayService(u) ==
    /\ LET todayStart == StartOfDay(now)
           todayPayment ==
             LatestBy(SelectSeq(payments,
                        LAMBDA d : d.user = u /\ d.status = "completed"
                                   /\ d.paidAt # NoDate
                                   /\ d.paidAt >= todayStart), 1)
           lastPayment ==
             LatestBy(SelectSeq(payments,
                        LAMBDA d : d.user = u /\ d.status = "completed"), 1)
       IN readOut' = [NoRead EXCEPT !.kind = "hasPaidToday", !.user = u,
                        !.target = u, !.status = 200, !.success = TRUE,
                        !.hasPaidToday = todayPayment # NoPayment,
                        !.payment = lastPayment]
    /\ UNCHANGED <<webVars, strictQuery, paystackKey, now, users, payments, ingested,
                   calls, lastDone>>

\* GET /payments/has-paid-today/:userId by the authenticated user u: 403
\* unless userId is the caller's own id.
hasPaidToday(u, userId) ==
    IF u # userId
    THEN /\ readOut' = [NoRead EXCEPT !.kind = "hasPaidToday", !.user = u,
                                       !.target = userId, !.status = 403]
         /\ UNCHANGED <<webVars, strictQuery, paystackKey, now, users,
                        payments, ingested, calls, lastDone>>
    ELSE hasPaidTodayService(userId)

\* GET /payments/:id: the Payment with that _id if the caller owns it or it
\* carries the caller's qrCodeToken, replied with 200.
getPaymentByIdService(u, id) ==
    /\ id \in 1..Len(payments)
    /\ payments[id].user = u \/ payments[id].qrCodeToken = QrOf(u)
    /\ readOut' = [NoRead EXCEPT !.kind = "getById", !.user = u,
                                  !.id = id, !.status = 200,
                                  !.success = TRUE,
                                  !.payment = payments[id]]
    /\ UNCHANGED <<webVars, strictQuery, paystackKey, now, users, payments, ingested,
                   calls, lastDone>>

\* The status the controller's catch gives an error thrown by
\* getPaymentByIdService: 404 for an error named 'NotFoundError', 400 for
\* every other one.
CaughtStatus(name, statusCode) == IF name = "NotFoundError" THEN 404 ELSE 400

\* GET /payments/:id by the authenticated user u.  With no such Payment
\* the service throws a plain Error carrying statusCode 404, which the
\* controller's catch answers.
getPaymentById(u, id) ==
    IF /\ id \in 1..Len(payments)
       /\ payments[id].user = u \/ payments[id].qrCodeToken = QrOf(u)
    THEN getPaymentByIdService(u, id)
    ELSE /\ readOut' = [NoRead EXCEPT !.kind = "getById", !.user = u,
                                       !.id = id,
                                       !.status = CaughtStatus("Error", 404)]
         /\ UNCHANGED <<webVars, strictQuery, paystackKey, now, users,
                        payments, ingested, calls, lastDone>>

Pages == {1, 2}
Limits == {1, 2}

Reverse(seq) == [i \in 1..Len(seq) |-> seq[Len(seq) + 1 - i]]
\* Math.floor in the place of Math.ceil.
Floor(a, b) == a \div b
Ceil(a, b) == (a + b - 1) \div b
Min(a, b) == IF a < b THEN a ELSE b

SortBys == {"-createdAt", "createdAt"}

\* sort({ createdAt: 1 }) or sort({ createdAt: -1 }) of documents given in
\* the order of their creation.
sort(docs, sortBy) == IF sortBy = "-createdAt" THEN Reverse(docs) ELSE docs

\* The result of getPaymentHistoryService(userId, qrCodeToken, { page,
\* limit, sortBy }) as the controller replies it with 200: the caller's
\* payments in the requested order of createdAt, skip (page - 1) * limit,
\* at most limit items, and the pagination record.
paymentHistory(u, page, limit, sortBy) ==
    LET query == ("user" :> u) @@ ("qrCodeToken" :> QrOf(u))
        found == sort(SelectSeq(payments, LAMBDA d : matches(d, query)),
                      sortBy)
        total == Len(found)
        skip == (page - 1) * limit
        totalPages == Ceil(total, limit)
    IN [NoRead EXCEPT
          !.kind = "history", !.user = u,
          !.status = 200, !.success = TRUE,
          !.data = SubSeq(found, skip + 1, Min(skip + limit, total)),
          !.total = total, !.totalPages = totalPages,
          !.hasNextPage = page < totalPages,
          !.hasPreviousPage = page > 1]

\* GET /payments/history with the default sort '-createdAt'.
getPaymentHistoryService(u, page, limit) ==
    /\ readOut' = paymentHistory(u, page, limit, "-createdAt")
    /\ UNCHANGED <<webVars, strictQuery, paystackKey, now, users, payments, ingested,
                   calls, lastDone>>

\* GET /payments/history?page=&limit=&sortBy= by the authenticated user u;
\* the reply is kept with the query it answers.
getPaymentHistory(u, page, limit, sortBy) ==
    /\ readOut' = [paymentHistory(u, page, limit, sortBy) EXCEPT
                     !.page = page, !.limit = limit, !.sortBy = sortBy]
    /\ UNCHANGED <<webVars, strictQuery, paystackKey, now, users, payments, ingested,
                   calls, lastDone>>

\* ------------------------------------------------------- specifications
\* Answers used where requests run concurrently.
ConcurrentAnswers ==
    {Http200("success", 1050), Http200("failed", 5000), HttpNot200(400, FALSE)}

\* Concurrent requests: every interleaving of the steps of MaxCalls
\* verifications with simulated payments and webhooks, at one clock instant.
Next ==
    \/ \E c \in Calls, u \in Users, r \in RequestRefs, b \in BodyAmounts :
         VerifyStart(c, u, r, b)
    \/ \E c \in Calls, a \in ConcurrentAnswers : ProviderRespond(c, a)
    \/ \E c \in Calls : SaveFind(c)
    \/ \E c \in Calls : SaveInsert(c)
    \/ \E c \in Calls : SaveUpdateUser(c)
    \/ \E c \in Calls : VerifyUpdateUser(c)
    \/ \E c \in Calls : VerifyRespond(c)
    \/ \E u \in Users, amt \in SimAmounts : processPayment(u, amt)
    \/ \E r \in RequestRefs : handlePaymentWebhook(r)

Spec == Init /\ [][Next]_vars

\* A verification that starts while no other request is in flight.
VerifyStartAlone(c, u, r, b) ==
    /\ \A q \in Calls : ~InFlight(calls[q])
    /\ VerifyStart(c, u, r, b)

\* One request at a time: every provider answer, a store failure of the user
\* update, the clock, and the reads.
NextSeq ==
    \/ Tick
    \/ \E c \in Calls, u \in Users, r \in RequestRefs, b \in BodyAmounts :
         VerifyStartAlone(c, u, r, b)
    \/ \E c \in Calls, a \in ProviderAnswers : ProviderRespond(c, a)
    \/ \E c \in Calls : SaveFind(c)
    \/ \E c \in Calls : SaveInsert(c)
    \/ \E c \in Calls : SaveUpdateUser(c)
    \/ \E c \in Calls : VerifyUpdateUser(c)
    \/ \E c \in Calls : VerifyRespond(c)
    \/ \E c \in Calls : UpdateUserFails(c)
    \/ \E u \in Users : hasPaidTodayService(u)
    \/ \E u \in Users, id \in 1..(MaxCalls + MaxSimulated) :
         getPaymentByIdService(u, id)
    \/ \E u \in Users, page \in Pages, limit \in Limits :
         getPaymentHistoryService(u, page, limit)

SpecSeq == Init /\ [][NextSeq]_vars

\* The read routes as the controllers answer them, over payments that
\* simulated payments, webhooks and live verifications store while the
\* clock passes a midnight; one request at a time.
ReadAnswers == {Http200("success", 1050)}
Quiet == \A q \in Calls : ~InFlight(calls[q])

InitRead ==
    /\ strictQuery \in BOOLEAN
    /\ paystackKey = TRUE
    /\ nodeEnv = "development"
    /\ InitStore

NextRead ==
    \/ Tick
    \/ \E c \in Calls, u \in Users, r \in LiveRefs :
         VerifyStartAlone(c, u, r, 0)
    \/ \E c \in Calls, a \in ReadAnswers : ProviderRespond(c, a)
    \/ \E c \in Calls : SaveFind(c)
    \/ \E c \in Calls : SaveInsert(c)
    \/ \E c \in Calls : SaveUpdateUser(c)
    \/ \E c \in Calls : VerifyUpdateUser(c)
    \/ \E c \in Calls : VerifyRespond(c)
    \/ \E u \in Users, amt \in SimAmounts : Quiet /\ processPayment(u, amt)
    \/ \E r \in RequestRefs : Quiet /\ handlePaymentWebhook(r)
    \/ \E u \in Users, userId \in Users : Quiet /\ hasPaidToday(u, userId)
    \/ \E u \in Users, id \in 1..(MaxCalls + MaxSimulated) :
         Quiet /\ getPaymentById(u, id)
    \/ \E u \in Users, page \in Pages, limit \in Limits, sortBy \in SortBys :
         Quiet /\ getPaymentHistory(u, page, limit, sortBy)

SpecRead == InitRead /\ [][NextRead]_vars

\* The user routes.  A run exercises either these routes or the
\* verification route: the user routes run while no verification has
\* started, and a verification starts only while none of them has been used.
InitApi ==
    /\ strictQuery \in BOOLEAN
    /\ paystackKey = TRUE
    /\ nodeEnv \in NodeEnvs
    /\ InitStore

WebIdle == webOut = NoWeb /\ \A r \in Regs : regs[r].pc = "idle"

VerifyStartApi(c, u, r, b) ==
    /\ WebIdle
    /\ VerifyStartAlone(c, u, r, b)

NextApi ==
    \/ \E r \in Regs, username \in RegUsernames, email \in RegEmails :
         registerFind(r, username, email)
    \/ \E r \in Regs : registerSave(r)
    \/ \E r \in Regs : registerRespond(r)
    \/ \E req \in Requests : getUsers(req)
    \/ \E req \in Requests, id \in AskedIds : getUserById(req, id)
    \/ \E owner \in {"u1", "u3"} : getUserByQrToken(owner)
    \/ notFoundHandler
    \/ \E err \in RouteErrors : globalErrorHandler(err)
    \/ \E c \in Calls, u \in Users, r \in RequestRefs, b \in BodyAmounts :
         VerifyStartApi(c, u, r, b)
    \/ \E c \in Calls, a \in ConcurrentAnswers : ProviderRespond(c, a)
    \/ \E c \in Calls : SaveFind(c)
    \/ \E c \in Calls : SaveInsert(c)
    \/ \E c \in Calls : SaveUpdateUser(c)
    \/ \E c \in Calls : VerifyUpdateUser(c)
    \/ \E c \in Calls : VerifyRespond(c)

SpecApi == InitApi /\ [][NextApi]_vars

\* ================================================================ claims
Done(c) == calls[c].pc = "done"
NominalAmount == Dec(10, 0)
StoredWith(ref) == {i \in 1..Len(payments) : payments[i].paymentId = ref}
ProjectionOf(doc) ==
    [status |-> Get(doc, "payment.status", "none"),
     paymentType |-> Get(doc, "payment.paymentType", ""),
     lastPaymentAmount |-> Get(doc, "payment.lastPaymentAmount", NoAmount),
     currency |-> Get(doc, "payment.currency", ""),
     lastPaymentDate |-> Get(doc, "payment.lastPaymentDate", NoDate)]

\* C1 (as claimed): when a verification of reference r by user u succeeded
\* and the same user verifies r again directly afterwards, with the provider
\* answering as before, the second request succeeds too, returns the same
\* payment id, and leaves the number of stored Payments unchanged.
C1_Idempotent ==
    \A c \in Calls :
        LET p == calls[c].after
        IN (/\ Done(c) /\ p # 0
            /\ calls[p].resp.success
            /\ calls[p].ref = calls[c].ref
            /\ calls[p].user = calls[c].user
            /\ calls[p].answer = calls[c].answer)
           => /\ calls[c].resp.success
              /\ calls[c].resp.payment.id = calls[p].resp.payment.id
              /\ calls[c].resp.count = calls[p].resp.count

\* C2 (as claimed): when two requests verify the same live reference that
\* was not stored when either of them started, and the provider reports
\* success to both, then both succeed with the same payment and exactly
\* one Payment with that reference is stored; the duplicate-key error never
\* reaches a caller.
C2_ConcurrentDedup ==
    \A c, d \in Calls :
        (/\ c # d /\ Done(c) /\ Done(d)
         /\ calls[c].ref = calls[d].ref /\ calls[c].ref \in LiveRefs
         /\ calls[c].unseen /\ calls[d].unseen
         /\ calls[c].answer.tx = "success" /\ calls[d].answer.tx = "success")
        => /\ calls[c].resp.success /\ calls[d].resp.success
           /\ calls[c].resp.payment.id = calls[d].resp.payment.id
           /\ Cardinality(StoredWith(calls[c].ref)) = 1

\* C3: no two stored Payments carry the same reference (paymentId), in every
\* state reached by any interleaving of verifications, simulated payments
\* and webhooks of any users.
C3_UniqueReference ==
    \A i, j \in 1..Len(payments) :
        i # j => payments[i].paymentId # payments[j].paymentId

\* C3 witness: several Payments are stored and a verification whose provider
\* answer was a success had its insert rejected for a reference that is
\* stored.
C3_Witness ==
    /\ Len(payments) >= 2
    /\ \E c \in Calls :
         /\ Done(c) /\ calls[c].answer.tx = "success"
         /\ ~calls[c].resp.success
         /\ StoredWith(calls[c].ref) # {}

\* C4 (as claimed): a verification of a live reference is answered as a
\* success only if the provider reported the transaction status 'success'.
C4_ProviderSuccessRequired ==
    \A c \in Calls :
        (Done(c) /\ calls[c].ref \in LiveRefs /\ calls[c].resp.success)
        => calls[c].answer.tx = "success"

\* C5 (as claimed): at the step that answers a verification of r by u with
\* success, u's stored projection is active / one-time and carries the
\* amount, currency and paidAt of the stored Payment for r, and the user
\* object of the reply shows the same.
C5_ProjectionConsistent ==
    [][\A c \in Calls :
         (calls[c].pc = "respond" /\ calls'[c].pc = "done"
          /\ calls'[c].resp.success)
         => LET proj == ProjectionOf(users'[calls[c].user])
            IN /\ StoredWith(calls[c].ref) # {}
               /\ proj.status = "active"
               /\ proj.paymentType = "one-time"
               /\ \A i \in StoredWith(calls[c].ref) :
                    /\ proj.lastPaymentAmount = payments[i].amount
                    /\ proj.currency = payments[i].currency
                    /\ proj.lastPaymentDate = payments[i].paidAt
               /\ ProjectionOf(calls'[c].resp.user) = proj]_vars

\* C6 (as claimed): whenever a user's stored payment status is active, a
\* Payment owned by that user is stored whose amount and paidAt are the
\* user's last-payment amount and date, and it is the user's most recently
\* recorded Payment.
C6_ProjectionInvariant ==
    \A u \in Users :
        LET proj == ProjectionOf(users[u])
            own == {i \in 1..Len(payments) : payments[i].user = u}
        IN proj.status = "active"
           => \E i \in own :
                /\ \A j \in own : j <= i
                /\ payments[i].amount = proj.lastPaymentAmount
                /\ payments[i].paidAt = proj.lastPaymentDate

\* The case C6 is about: some user's stored payment status is active.  No
\* reachable state satisfies it (userSchema declares no `payment` path), so
\* C6_ProjectionInvariant holds only because its premise is never true.
C6_SomeUserActive ==
    \E u \in Users : ProjectionOf(users[u]).status = "active"

C8_TestPathIsolation ==
    \A c \in Calls :
        startsWith(calls[c].ref, "test_")
        => /\ calls[c].requests = 0
           /\ (Done(c) /\ calls[c].resp.success)
                => calls[c].resp.payment.amount = NominalAmount
           /\ \A i \in StoredWith(calls[c].ref) :
                payments[i].amount = NominalAmount

\* C9 (as claimed): a verification of a test-prefixed reference that was not
\* recorded before, by a user without earlier payments, succeeds with
\* payment.amount = 10.00, payment.status = 'completed' and
\* user.paymentStatus = 'active'.
C9_TestPathOutcome ==
    \A c \in Calls :
        (/\ Done(c) /\ paystackKey
         /\ startsWith(calls[c].ref, "test_")
         /\ calls[c].unseen /\ calls[c].noPrior)
        => /\ calls[c].resp.status = 200 /\ calls[c].resp.success
           /\ calls[c].resp.payment.amount = NominalAmount
           /\ calls[c].resp.payment.status = "completed"
           /\ ProjectionOf(calls[c].resp.user).status = "active"

\* C10 (as claimed): when the provider answers the verify-by-reference call
\* with a status other than 200, the request is answered with HTTP 400 and
\* success = false.
C10_ProviderRejected400 ==
    \A c \in Calls :
        (Done(c) /\ calls[c].answer.kind = "http" /\ calls[c].answer.status # 200)
        => calls[c].resp.status = 400 /\ ~calls[c].resp.success

\* A provider answer other than HTTP 200: no response at all, or a response
\* with another status (3xx and 4xx resolve, >= 500 rejects).
ProviderFailed(a) ==
    a.kind = "none" \/ (a.kind = "http" /\ a.status # 200)

\* C11: when the provider gives no response (network failure or timeout),
\* the verification has sent exactly one provider request and is answered
\* with a 5xx status, success = false.
C11_ProviderUnavailable ==
    \A c \in Calls :
        (Done(c) /\ calls[c].answer.kind = "none")
        => /\ calls[c].requests = 1
           /\ calls[c].resp.status \in 500..599
           /\ ~calls[c].resp.success

\* C11 witness: a verification whose provider request got no response has
\* been answered.
C11_Witness ==
    \E c \in Calls :
        /\ Done(c) /\ calls[c].answer.kind = "none"
        /\ calls[c].requests = 1 /\ calls[c].resp.status = 500

\* C12: every step of a verification whose provider call failed (no
\* response, or any status other than 200, a 3xx included) stores no
\* Payment, leaves every user record unchanged and does not answer with
\* success.
C12_NoChangeOnProviderFailure ==
    [][\A c \in Calls :
         (calls'[c] # calls[c] /\ ProviderFailed(calls'[c].answer))
         => /\ payments' = payments
            /\ users' = users
            /\ ~calls'[c].resp.success
            /\ calls'[c].pc = "done"]_vars

\* C12 witness: after a Payment was stored and the clock advanced, a
\* verification was answered whose provider call ended in a 302 redirect.
C12_Witness ==
    /\ Len(payments) >= 1 /\ now > 0
    /\ \E c \in Calls :
         /\ Done(c) /\ calls[c].answer = HttpNot200(302, FALSE)
         /\ calls[c].resp.count = Len(payments)
         /\ ~calls[c].resp.success

\* C13: the step that receives a verification request without a reference
\* answers it with HTTP 400, success = false, sends no provider request and
\* changes neither the Payment collection nor any user record.
C13_MissingReference ==
    [][\A c \in Calls :
         (calls[c].pc = "idle" /\ calls'[c].pc # "idle"
          /\ calls'[c].ref = NoRef)
         => /\ calls'[c].pc = "done"
            /\ calls'[c].resp.status = 400
            /\ ~calls'[c].resp.success
            /\ calls'[c].requests = 0
            /\ payments' = payments
            /\ users' = users]_vars

\* C13 witness: a request without a reference was answered 400 while a
\* Payment is stored and the provider credential is absent.
C13_Witness ==
    /\ ~paystackKey /\ Len(payments) >= 1
    /\ \E c \in Calls :
         /\ Done(c) /\ calls[c].ref = NoRef /\ calls[c].resp.status = 400
         /\ calls[c].requests = 0

\* C14: the step that receives a verification request with a reference
\* while the provider credential is absent answers it with a 5xx status,
\* success = false, sends no provider request, inserts no Payment and
\* changes no user record.
C14_ConfigurationError ==
    [][\A c \in Calls :
         (calls[c].pc = "idle" /\ calls'[c].pc # "idle"
          /\ calls'[c].ref # NoRef /\ ~paystackKey)
         => /\ calls'[c].pc = "done"
            /\ calls'[c].resp.status \in 500..599
            /\ ~calls'[c].resp.success
            /\ calls'[c].requests = 0
            /\ payments' = payments
            /\ users' = users]_vars

\* C14 witness: with the credential absent, verifications of a live and of a
\* test reference have both been answered 500.
C14_Witness ==
    /\ ~paystackKey
    /\ \E c, d \in Calls :
         /\ Done(c) /\ calls[c].ref \in LiveRefs /\ calls[c].resp.status = 500
         /\ Done(d) /\ calls[d].ref \in TestRefs /\ calls[d].resp.status = 500

\* C15 (as claimed): a verification whose Payment insert succeeded and whose
\* following update of the user failed is still answered as a success.
C15_ProjectionFailureNotSurfaced ==
    \A c \in Calls :
        (Done(c) /\ calls[c].inserted /\ calls[c].failedAt # "")
        => calls[c].resp.success /\ calls[c].resp.status = 200

\* C16 (as claimed): after a verification of r by u stored the Payment and
\* then failed in the user update, the Payment for r stays stored, and when
\* the next verification, of r by u again, succeeds, u's projection is active
\* with that Payment's amount and date.
C16_StaleProjectionRecovered ==
    \A c \in Calls :
        LET p == calls[c].after
        IN (/\ Done(c) /\ p # 0
            /\ calls[p].inserted /\ calls[p].failedAt # ""
            /\ calls[p].ref = calls[c].ref /\ calls[p].user = calls[c].user
            /\ calls[c].resp.success)
           => /\ Cardinality(StoredWith(calls[c].ref)) = 1
              /\ \A i \in StoredWith(calls[c].ref) :
                   LET proj == ProjectionOf(users[calls[c].user])
                   IN /\ proj.status = "active"
                      /\ proj.lastPaymentAmount = payments[i].amount
                      /\ proj.lastPaymentDate = payments[i].paidAt

\* The step taken is a step of verification c (every step of a verification
\* moves its pc).
StepOf(c) == calls'[c].pc # calls[c].pc

\* The step taken is one of the two user updates of verification c, and the
\* store accepted it.
UpdateStepOf(c) ==
    /\ calls[c].pc \in {"update1", "update2"}
    /\ StepOf(c)
    /\ calls'[c].failedAt = ""

\* C17 (as claimed): a verification issues its update of the user only when
\* a Payment with the reference it verifies is stored.
C17_InsertPrecedesProjection ==
    [][\A c \in Calls :
         UpdateStepOf(c) => StoredWith(calls[c].ref) # {}]_vars

\* The credential is set and the provider answered HTTP 200, or the reference
\* takes the test branch.
Verified(cl) ==
    /\ paystackKey
    /\ isTestPayment(cl.ref) \/ (cl.answer.kind = "http" /\ cl.answer.status = 200)

\* C18 (as claimed): a verification of a reference that had a stored Payment
\* when the request arrived changes no stored Payment with that reference in
\* any of its steps, and, once the reference is verified, is answered with
\* success and with that Payment's id, amount, currency, status and paidAt.
C18_ExistingReturnedUnchanged ==
    [][\A c \in Calls :
         (StepOf(c) /\ calls'[c].ref # NoRef /\ ~calls'[c].unseen)
         => /\ \A i \in StoredWith(calls'[c].ref) : payments'[i] = payments[i]
            /\ (calls'[c].pc = "done" /\ Verified(calls'[c]))
               => /\ calls'[c].resp.success
                  /\ \E i \in StoredWith(calls'[c].ref) :
                       /\ calls'[c].resp.payment.id = payments[i]._id
                       /\ calls'[c].resp.payment.amount = payments[i].amount
                       /\ calls'[c].resp.payment.currency = payments[i].currency
                       /\ calls'[c].resp.payment.status = payments[i].status
                       /\ calls'[c].resp.payment.paidAt = payments[i].paidAt]_vars

\* C19 (as claimed): in every step, a stored Payment whose status changes
\* was pending and becomes completed or failed.
C19_OneWayStatus ==
    [][\A i \in 1..Len(payments) :
         payments'[i].status # payments[i].status
         => /\ payments[i].status = "pending"
            /\ payments'[i].status \in {"completed", "failed"}]_vars

\* The payment-status fields a user document may carry: the `payment.*`
\* paths the verification and the webhook set, and the top-level fields that
\* processPayment assigns.
ProjectionPaths ==
    {"payment.status", "payment.paymentType", "payment.lastPaymentDate",
     "payment.lastPaymentAmount", "payment.currency", "payment.nextBillingDate",
     "paymentStatus", "lastPaymentDate"}

SensitivePaths == {"password", "resetPasswordToken", "resetPasswordExpire"}
NoSensitive(doc) == (DOMAIN doc) \cap SensitivePaths = {}

\* C21: no reply of verify-payment, register, get-users, get-user-by-id or
\* get-user-by-QR-token carries the password hash or a password-reset field
\* of a user.
C21_NoSensitiveFields ==
    /\ \A c \in Calls : NoSensitive(calls[c].resp.user)
    /\ \A r \in Regs : NoSensitive(regs[r].body)
    /\ NoSensitive(webOut.body)
    /\ \A k \in 1..Len(webOut.list) : NoSensitive(webOut.list[k])

\* C21 witness: a user was registered with reply 201, its stored document
\* holds the password hash, and GET /api/users then listed the three users.
C21_Witness ==
    /\ \E r \in Regs :
         /\ regs[r].status = 201
         /\ "password" \in DOMAIN users[regs[r].id]
    /\ webOut.route = "getUsers" /\ webOut.status = 200
    /\ Len(webOut.list) = 3

\* The routes behind protect among the user routes.
ProtectedRoutes == {"getUsers", "getUserById"}

\* The request carries a valid token, or a session under x-use-cookie-auth,
\* for user id.
CarriesCredentialFor(req, id) ==
    \/ \E tok \in {req.cookie, req.header} : tok.kind = "valid" /\ tok.sub = id
    \/ req.useCookie /\ req.session = id

\* C22: in every step that answers a request to a route behind protect, the
\* handler ran only if the request carried a valid token or session for a
\* stored user who is neither suspended nor deleted, and then req.user is
\* that user's document without the password and protect sent nothing;
\* otherwise protect answered 401 or 403, the handler did not run and the
\* request got that one response.
C22_AuthenticationPrecondition ==
    [][(webOut' # webOut /\ webOut'.route \in ProtectedRoutes)
       => LET out == webOut'
              id == out.reqUser["_id"]
          IN /\ out.next
                  => /\ out.denied = 0
                     /\ id \in DOMAIN users
                     /\ CarriesCredentialFor(out.req, id)
                     /\ ~Get(users[id], "isSuspended", FALSE)
                     /\ ~Get(users[id], "isDeleted", FALSE)
                     /\ out.reqUser = select(users[id], {"password"})
             /\ ~out.next
                  => /\ out.denied \in {401, 403}
                     /\ out.status = out.denied /\ out.sent = 1
                     /\ out.reqUser = NoUserDoc
                     /\ out.body = NoUserDoc /\ out.list = <<>>]_vars

\* C22 witness: a user registered during the run was authenticated by the
\* token of its cookie and the handler of GET /api/users/:id ran for it.
C22_Witness ==
    /\ webOut.route = "getUserById" /\ webOut.next
    /\ webOut.req.cookie = Token("valid", "u3")
    /\ webOut.reqUser["_id"] = "u3"
    /\ webOut.status = 200

\* Server-local midnights fall on the odd clock instants.
IsMidnight(t) == (t + 1) % 2 = 0

\* The server-local midnight that precedes the instant t: the latest
\* midnight at or before t.
MidnightBefore(t) ==
    CHOOSE m \in (t - 1)..t : IsMidnight(m) /\ \A k \in (m + 1)..t : ~IsMidnight(k)

\* C23: whenever has-paid-today is answered for user u, hasPaidToday is true
\* exactly when u owns a stored Payment with status completed whose paidAt
\* is at or after the server-local midnight that precedes the query time;
\* payments of another status and payments paid before that midnight do
\* not count.
C23_HasPaidTodayExact ==
    [][(readOut' # readOut /\ readOut'.kind = "hasPaidToday"
        /\ readOut'.status = 200)
       => readOut'.hasPaidToday
            = (\E i \in 1..Len(payments) :
                 /\ payments[i].user = readOut'.user
                 /\ payments[i].status = "completed"
                 /\ payments[i].paidAt # NoDate
                 /\ payments[i].paidAt >= MidnightBefore(now))]_vars

\* C23 witness: has-paid-today answered false to a user who owns a
\* completed payment paid before the last midnight and a payment of another
\* status paid after it.
C23_Witness ==
    /\ readOut.kind = "hasPaidToday" /\ readOut.status = 200
    /\ ~readOut.hasPaidToday
    /\ \E i \in 1..Len(payments) :
         /\ payments[i].user = readOut.user
         /\ payments[i].status = "completed"
         /\ payments[i].paidAt < MidnightBefore(now)
    /\ \E i \in 1..Len(payments) :
         /\ payments[i].user = readOut.user
         /\ payments[i].status # "completed"
         /\ payments[i].paidAt >= MidnightBefore(now)

\* C24: GET /payments/:id with a well-formed id that matches no payment
\* accessible to the caller is answered with HTTP 404 and success = false.
C24_UnknownPaymentIs404 ==
    (readOut.kind = "getById" /\ readOut.payment = NoPayment)
       => (readOut.status = 404 /\ ~readOut.success)

\* C25: a history request of the user owning T payments, with page p and
\* limit l, returns exactly the payments at positions (p-1)*l+1 ..
\* min(p*l, T) of that user's payments in the requested sort order, that is
\* min(l, max(0, T-(p-1)*l)) items, with total = T, totalPages =
\* ceil(T/l), hasNextPage = (p < totalPages) and hasPreviousPage = (p > 1).
C25_HistoryPagination ==
    [][(readOut' # readOut /\ readOut'.kind = "history"
        /\ readOut'.status = 200)
       => LET out == readOut'
              p == out.page
              l == out.limit
              own == SelectSeq(payments, LAMBDA d : d.user = out.user)
              T == Len(own)
              ordered == [k \in 1..T |->
                            IF out.sortBy = "createdAt" THEN own[k]
                            ELSE own[T + 1 - k]]
              first == (p - 1) * l + 1
              last == IF p * l < T THEN p * l ELSE T
              rest == IF T - (p - 1) * l > 0 THEN T - (p - 1) * l ELSE 0
              pagesNeeded ==
                CHOOSE q \in 0..T : q * l >= T /\ (q = 0 \/ (q - 1) * l < T)
          IN /\ Len(out.data) = (IF l < rest THEN l ELSE rest)
             /\ \A k \in 1..Len(out.data) : out.data[k] = ordered[first + k - 1]
             /\ Len(out.data) = 0 \/ first + Len(out.data) - 1 = last
             /\ out.total = T
             /\ out.totalPages = pagesNeeded
             /\ out.hasNextPage = (p < pagesNeeded)
             /\ out.hasPreviousPage = (p > 1)]_vars

\* C25 witness: the second page of one item of a user owning three
\* payments, oldest first: the second payment, with a page before it and a
\* page after it.
C25_Witness ==
    /\ readOut.kind = "history" /\ readOut.status = 200
    /\ readOut.page = 2 /\ readOut.limit = 1 /\ readOut.sortBy = "createdAt"
    /\ readOut.total = 3 /\ readOut.totalPages = 3
    /\ Len(readOut.data) = 1
    /\ readOut.data[1] = SelectSeq(payments, LAMBDA d : d.user = readOut.user)[2]
    /\ readOut.hasNextPage /\ readOut.hasPreviousPage

\* The email or the username of registration reg is the one of a stored
\* user.
IdentityUsed(us, reg) ==
    \E id \in DOMAIN us :
        \/ us[id]["email"] = reg.email
        \/ us[id]["username"] = reg.username

NoSharedIdentity ==
    \A a \in DOMAIN users, b \in DOMAIN users :
        a # b => /\ users[a]["email"] # users[b]["email"]
                 /\ users[a]["username"] # users[b]["username"]

\* C26: a registration whose email or username is already used by a stored
\* user creates no user and is rejected with HTTP 400, at the lookup or at
\* the save; and in every reachable state, concurrent registrations with
\* the same email or username included, no two stored users share an email
\* or a username.
C26_DuplicateRegistrationRejected ==
    /\ []NoSharedIdentity
    /\ [][\A r \in Regs :
            (regs'[r] # regs[r] /\ regs[r].pc \in {"idle", "save"}
             /\ IdentityUsed(users, regs'[r]))
               => /\ users' = users
                  /\ regs'[r].status # 201
                  /\ regs'[r].pc \in {"save", "done"}
                  /\ regs'[r].pc = "done" => regs'[r].status = 400
                  /\ regs[r].pc = "save" => regs'[r].pc = "done"]_vars

\* C26 witness: two concurrent registrations with the same email both
\* passed the lookup; the first was stored and the second was rejected with
\* 400 at its save.
C26_Witness ==
    /\ regs[1].email = regs[2].email
    /\ regs[1].username # regs[2].username
    /\ regs[1].id \in DOMAIN users
    /\ regs[2].pc = "done" /\ regs[2].status = 400
    /\ regs[2].body = ("message" :> "field already exists")
    /\ Cardinality({id \in DOMAIN users :
                      users[id]["email"] = regs[1].email}) = 1

\* C27: GET /api/users returns the user list only to an authenticated
\* admin; a request of an authenticated user who is no admin, like one that
\* is not authenticated, is answered with HTTP 401 and no user list.
C27_AdminOnlyUserList ==
    webOut.route = "getUsers"
       => IF webOut.next /\ Get(webOut.reqUser, "isAdmin", FALSE) = TRUE
          THEN webOut.status = 200
          ELSE webOut.status = 401 /\ webOut.list = <<>>

C29_NoAuthFailureForAuthenticated ==
    \A c \in Calls :
        calls[c].pc = "done"
           => /\ calls[c].resp.status # 401
              /\ ~calls[c].resp.requiresAuth

\* C30: every error passed to the global error handler produces exactly
\* one HTTP response to the client, for every value of NODE_ENV
\* (development, production, test or unset).
C30_EveryErrorAnswered ==
    webOut.route = "error" => webOut.sent = 1

====
